---- MODULE Spec2Model ----
(***************************************************************************)
(* GlobalDataCollector (src/global_data_collector.py): one run of          *)
(* collect_all_data.  The main thread builds a ThreadPoolExecutor, submits *)
(* one task per website, one per API endpoint and one per source group     *)
(* (news, public datasets, government), waits for the pool to drain and    *)
(* writes the summary report.  Worker threads run the tasks; every source  *)
(* of a task is a job: fetch, parse, save_to_database, archive file.       *)
(***************************************************************************)
EXTENDS Integers, Sequences, FiniteSets, TLC

\* ------------------------------------------------------------------ bounds
\* The source lists are static configuration; the model keeps a prefix of each.
NumWebsites == 1
NumApis == 1
NumFeeds == 1
NumDatasets == 2
NumGovernment == 0
\* item elements in one fetched feed
MaxItems == 2
\* largest positive max_workers tried
MaxWorkers == 2
\* seconds the wall clock may advance between the first and the last archive write
MaxClock == 1
\* generate_summary_report calls made on one collector
MaxReportCalls == 2

\* ------------------------------------------------------------ source lists
\* Jobs are numbered in submission order.
websites_to_scrape == [i \in 1..NumWebsites |-> i]
public_apis == [i \in 1..NumApis |-> NumWebsites + i]
news_sources == [i \in 1..NumFeeds |-> NumWebsites + NumApis + i]
public_datasets == [i \in 1..NumDatasets |-> NumWebsites + NumApis + NumFeeds + i]
government_sources ==
    [i \in 1..NumGovernment |-> NumWebsites + NumApis + NumFeeds + NumDatasets + i]

Range(s) == {s[i] : i \in DOMAIN s}

Jobs == 1..(NumWebsites + NumApis + NumFeeds + NumDatasets + NumGovernment)

\* What runs a source: scrape_website, fetch_from_api or parse_rss_feed.
KindOfJob ==
    [j \in Jobs |->
        IF j \in Range(public_apis) THEN "Api"
        ELSE IF j \in Range(news_sources) THEN "Rss"
        ELSE "Page"]
Kind(j) == KindOfJob[j]

\* Mutant of TableOf: fetch_from_api saves into scrape_website's table.
TableOfCopied(j) == IF Kind(j) = "Rss" THEN "news_articles" ELSE "web_data"

\* The table save_to_database is called with, by kind.
TableOf(j) ==
    IF Kind(j) = "Page" THEN "web_data"
    ELSE IF Kind(j) = "Api" THEN "api_data"
    ELSE "news_articles"

TableNames == {"web_data", "api_data", "news_articles"}

\* The archive file name prefix, by kind.
Prefix(j) == IF Kind(j) = "Page" THEN "webpage_" ELSE "api_"

\* Mutant of Tasks: the sources of the groups are mapped onto the pool one
\* by one, like the websites.
TasksPerSource == [j \in Jobs |-> <<j>>]

\* The work items handed to the pool, in submission order: executor.map over
\* the websites, executor.map over the APIs, then the three group tasks.
Tasks ==
    [i \in 1..NumWebsites |-> <<websites_to_scrape[i]>>]
    \o [i \in 1..NumApis |-> <<public_apis[i]>>]
    \o <<news_sources, public_datasets, government_sources>>

TaskIds == 1..Len(Tasks)

\* The work item a source belongs to.
TaskOfJob == [j \in Jobs |-> CHOOSE t \in TaskIds : j \in Range(Tasks[t])]
TaskOf(j) == TaskOfJob[j]

VARIABLES
    max_workers,  \* the argument of collect_all_data
    mainpc,       \* main thread: "start", "submit", "shutdown", "report", "returned",
                  \* "raised", and "unwind" (an exception leaving the with-block)
    error,        \* what collect_all_data raised, "" if nothing
    submitted,    \* number of work items submitted so far
    queue,        \* the pool's work queue (task ids, FIFO)
    cur,          \* task -> 0 not started, k running its k-th source, Len+1 finished
    jpc,          \* job -> "idle", "fetch", "parse", "save", "commit", "archive", "done"
    outcome,      \* job -> "none", "succeeded", or the stage whose error ended it
    fetches,      \* job -> number of requests.get calls issued for it
    items,        \* job -> number of item elements in the fetched feed
    idx,          \* job -> the item being saved (0 for a page or an API payload)
    dblock,       \* the job holding SQLite's write lock, 0 if free
    pending,      \* job -> rowid of its uncommitted INSERT, 0 if none
    tables,       \* table name -> rows in rowid order, a row being <<job, item>>
    dropped,      \* records whose INSERT or commit failed
    files,        \* archive file name -> the job that wrote it last
    clock,        \* the second of the latest archive file name
    report,       \* the reports generate_summary_report has written, in order
    reportCalls   \* number of generate_summary_report calls

vars == <<max_workers, mainpc, error, submitted, queue, cur, jpc, outcome, fetches,
          items, idx, dblock, pending, tables, dropped, files, clock, report,
          reportCalls>>

mainVars == <<mainpc, error, submitted, report, reportCalls>>
dbVars == <<dblock, pending, tables, dropped>>

\* ------------------------------------------------------------------- Init
\* __init__ on a fresh data directory: empty tables, no archive file.
Init ==
    /\ max_workers \in {-1, 0} \cup 1..MaxWorkers
    /\ mainpc = "start"
    /\ error = ""
    /\ submitted = 0
    /\ queue = <<>>
    /\ cur = [t \in TaskIds |-> 0]
    /\ jpc = [j \in Jobs |-> "idle"]
    /\ outcome = [j \in Jobs |-> "none"]
    /\ fetches = [j \in Jobs |-> 0]
    /\ items = [j \in Jobs |-> 0]
    /\ idx = [j \in Jobs |-> 0]
    /\ dblock = 0
    /\ pending = [j \in Jobs |-> 0]
    /\ tables = [n \in TableNames |-> <<>>]
    /\ dropped = {}
    /\ files = <<>>
    /\ clock = 0
    /\ report = <<>>
    /\ reportCalls = 0

\* ------------------------------------------------------------ thread pool
Running(t) == cur[t] \in 1..Len(Tasks[t])
Finished(t) == cur[t] = Len(Tasks[t]) + 1

\* Mutant of Construct: max_workers is not validated.
ConstructUnchecked ==
    /\ mainpc = "start"
    /\ mainpc' = "submit"
    /\ UNCHANGED <<max_workers, error, submitted, queue, cur, jpc, outcome, fetches,
                   items, idx, dblock, pending, tables, dropped, files, clock, report,
                   reportCalls>>

\* ThreadPoolExecutor(max_workers): ValueError unless max_workers > 0.
Construct ==
    /\ mainpc = "start"
    /\ IF max_workers <= 0
       THEN mainpc' = "raised" /\ error' = "ValueError"
       ELSE mainpc' = "submit" /\ error' = error
    /\ UNCHANGED <<max_workers, submitted, queue, cur, jpc, outcome, fetches, items,
                   idx, dbVars, files, clock, report, reportCalls>>

\* executor.map / executor.submit: one work item is queued; results are dropped.
Submit ==
    /\ mainpc = "submit"
    /\ submitted < Len(Tasks)
    /\ queue' = Append(queue, submitted + 1)
    /\ submitted' = submitted + 1
    /\ mainpc' = IF submitted + 1 = Len(Tasks) THEN "shutdown" ELSE "submit"
    /\ UNCHANGED <<max_workers, error, cur, jpc, outcome, fetches, items, idx, dbVars,
                   files, clock, report, reportCalls>>

\* Mutant of WorkerFree: the pool starts a thread for every work item.
WorkerFreeUnbounded == TRUE

\* A worker thread is free when fewer than max_workers work items are running.
WorkerFree == Cardinality({t \in TaskIds : Running(t)}) < max_workers

\* A free worker takes the head of the queue and calls the task.
WorkerTake ==
    /\ queue # <<>>
    /\ WorkerFree
    /\ LET t == Head(queue) IN
         /\ queue' = Tail(queue)
         /\ cur' = [cur EXCEPT ![t] = 1]
         /\ jpc' = IF Len(Tasks[t]) > 0
                   THEN [jpc EXCEPT ![Tasks[t][1]] = "fetch"]
                   ELSE jpc
    /\ UNCHANGED <<max_workers, mainVars, outcome, fetches, items, idx, dbVars, files,
                   clock>>

\* Mutant of PoolDrained: shutdown(wait=False).
PoolDrainedNoWait == TRUE

\* The with-block's exit: shutdown(wait=True) returns once every work item is done.
PoolDrained == \A t \in TaskIds : Finished(t)

\* Mutant of Shutdown: the results are consumed and a failed job's error
\* is raised again in the main thread.
ShutdownReraises ==
    /\ mainpc = "shutdown"
    /\ \A t \in TaskIds : Finished(t)
    /\ IF \E j \in Jobs : outcome[j] # "succeeded"
       THEN mainpc' = "raised" /\ error' = "JobError"
       ELSE mainpc' = "report" /\ error' = error
    /\ UNCHANGED <<max_workers, submitted, queue, cur, jpc, outcome, fetches, items,
                   idx, dblock, pending, tables, dropped, files, clock, report,
                   reportCalls>>

Shutdown ==
    /\ mainpc = "shutdown"
    /\ PoolDrained
    /\ mainpc' = "report"
    /\ UNCHANGED <<max_workers, error, submitted, queue, cur, jpc, outcome, fetches,
                   items, idx, dbVars, files, clock, report, reportCalls>>

\* ------------------------------------------------------------------- jobs
\* The task's position after job j returned normally: the loop goes on.
AfterReturn(t) == cur[t] + 1

\* Mutant of AfterExcept: no except block, the error ends the whole task.
AfterExceptPropagates(t) == Len(Tasks[t]) + 1

\* The task's position after job j's except block logged the error and
\* returned None: the loop goes on with the next source.
AfterExcept(t) == cur[t] + 1

\* jpc once job j has ended and its task stands at position k.
JpcAt(j, k) ==
    LET t == TaskOf(j) IN
    IF k <= Len(Tasks[t])
    THEN [jpc EXCEPT ![j] = "done", ![Tasks[t][k]] = "fetch"]
    ELSE [jpc EXCEPT ![j] = "done"]

\* Job j ends successfully.
Succeed(j) ==
    /\ outcome' = [outcome EXCEPT ![j] = "succeeded"]
    /\ cur' = [cur EXCEPT ![TaskOf(j)] = AfterReturn(TaskOf(j))]
    /\ jpc' = JpcAt(j, AfterReturn(TaskOf(j)))

\* Job j's except Exception block: the error raised at `stage` ends the job.
Except(j, stage) ==
    /\ outcome' = [outcome EXCEPT ![j] = stage]
    /\ cur' = [cur EXCEPT ![TaskOf(j)] = AfterExcept(TaskOf(j))]
    /\ jpc' = JpcAt(j, AfterExcept(TaskOf(j)))

\* Mutant of FetchOk: the record is built and saved from the raw response,
\* before the payload is parsed.
FetchOkSavesUnparsed(j) ==
    /\ jpc[j] = "fetch"
    /\ fetches' = [fetches EXCEPT ![j] = @ + 1]
    /\ \E n \in 1..MaxItems :
         items' = [items EXCEPT ![j] = IF Kind(j) = "Rss" THEN n ELSE 0]
    /\ jpc' = [jpc EXCEPT ![j] = "save"]
    /\ idx' = [idx EXCEPT ![j] = IF Kind(j) = "Rss" THEN 1 ELSE 0]
    /\ UNCHANGED <<max_workers, mainpc, error, submitted, report, reportCalls, queue,
                   cur, outcome, dblock, pending, tables, dropped, files, clock>>

\* requests.get + raise_for_status: one attempt; a feed's body has n items.
FetchOk(j) ==
    /\ jpc[j] = "fetch"
    /\ fetches' = [fetches EXCEPT ![j] = @ + 1]
    /\ \E n \in 0..MaxItems :
         items' = [items EXCEPT ![j] = IF Kind(j) = "Rss" THEN n ELSE 0]
    /\ jpc' = [jpc EXCEPT ![j] = "parse"]
    /\ UNCHANGED <<max_workers, mainVars, queue, cur, outcome, idx, dbVars, files, clock>>

\* Mutant of FetchFail: a failed request is tried once more.
FetchFailRetry(j) ==
    /\ jpc[j] = "fetch"
    /\ fetches[j] < 2
    /\ fetches' = [fetches EXCEPT ![j] = @ + 1]
    /\ UNCHANGED <<max_workers, mainpc, error, submitted, report, reportCalls, queue,
                   cur, jpc, outcome, items, idx, dblock, pending, tables, dropped,
                   files, clock>>

\* The request raises (transport error, timeout, non-success status).
FetchFail(j) ==
    /\ jpc[j] = "fetch"
    /\ fetches' = [fetches EXCEPT ![j] = @ + 1]
    /\ Except(j, "fetch")
    /\ UNCHANGED <<max_workers, mainVars, queue, items, idx, dbVars, files, clock>>

\* Mutant of ParseOk: the loop body runs once before the item list is
\* tested, so a feed without items saves one blank record.
ParseOkLoopRunsOnce(j) ==
    /\ jpc[j] = "parse"
    /\ jpc' = [jpc EXCEPT ![j] = "save"]
    /\ idx' = [idx EXCEPT ![j] = IF Kind(j) = "Rss" THEN 1 ELSE 0]
    /\ UNCHANGED <<max_workers, mainpc, error, submitted, report, reportCalls, queue,
                   cur, outcome, fetches, items, dblock, pending, tables, dropped,
                   files, clock>>

\* BeautifulSoup / response.json and the building of the record.  A feed
\* without items is done; anything else goes on to save_to_database.
ParseOk(j) ==
    /\ jpc[j] = "parse"
    /\ IF Kind(j) = "Rss" /\ items[j] = 0
       THEN Succeed(j) /\ idx' = idx
       ELSE /\ jpc' = [jpc EXCEPT ![j] = "save"]
            /\ idx' = [idx EXCEPT ![j] = IF Kind(j) = "Rss" THEN 1 ELSE 0]
            /\ UNCHANGED <<cur, outcome>>
    /\ UNCHANGED <<max_workers, mainVars, queue, fetches, items, dbVars, files, clock>>

ParseFail(j) ==
    /\ jpc[j] = "parse"
    /\ Except(j, "parse")
    /\ UNCHANGED <<max_workers, mainVars, queue, fetches, items, idx, dbVars, files,
                   clock>>

\* save_to_database, sqlite3.connect raises: the call is outside the try, so
\* the error reaches the caller's except block.  (A connect that succeeds
\* changes nothing shared: it is the first half of the execute step.)
ConnectFail(j) ==
    /\ jpc[j] = "save"
    /\ Except(j, "connect")
    /\ UNCHANGED <<max_workers, mainVars, queue, fetches, items, idx, dbVars, files,
                   clock>>

\* Where job j goes once save_to_database has returned: a page or an API
\* payload is archived, a feed saves its next item or is done.
SaveReturns(j) ==
    IF Kind(j) # "Rss"
    THEN /\ jpc' = [jpc EXCEPT ![j] = "archive"]
         /\ UNCHANGED <<cur, outcome, idx>>
    ELSE IF idx[j] < items[j]
    THEN /\ jpc' = [jpc EXCEPT ![j] = "save"]
         /\ idx' = [idx EXCEPT ![j] = @ + 1]
         /\ UNCHANGED <<cur, outcome>>
    ELSE Succeed(j) /\ idx' = idx

\* Mutant of DbWriteLockFree: writers are not serialized.
DbWriteLockIgnored == TRUE

\* SQLite lets one connection write at a time: the INSERT waits for the lock.
DbWriteLockFree == dblock = 0

\* cursor.execute(INSERT): takes the write lock; AUTOINCREMENT gives the
\* row the next rowid of its table.
ExecuteOk(j) ==
    /\ jpc[j] = "save"
    /\ DbWriteLockFree
    /\ dblock' = j
    /\ pending' = [pending EXCEPT ![j] = Len(tables[TableOf(j)]) + 1]
    /\ jpc' = [jpc EXCEPT ![j] = "commit"]
    /\ UNCHANGED <<max_workers, mainVars, queue, cur, outcome, fetches, items, idx,
                   tables, dropped, files, clock>>

\* Mutant of ExecuteFail: save_to_database has no except block, the error
\* reaches the job's own.
ExecuteFailRaises(j) ==
    /\ jpc[j] = "save"
    /\ dropped' = dropped \cup {<<j, idx[j]>>}
    /\ Except(j, "insert")
    /\ UNCHANGED <<max_workers, mainpc, error, submitted, report, reportCalls, queue,
                   fetches, items, idx, dblock, pending, tables, files, clock>>

\* The INSERT raises (lock wait timed out, disk error): logged, swallowed.
ExecuteFail(j) ==
    /\ jpc[j] = "save"
    /\ dropped' = dropped \cup {<<j, idx[j]>>}
    /\ SaveReturns(j)
    /\ UNCHANGED <<max_workers, mainVars, queue, fetches, items, dblock, pending,
                   tables, files, clock>>

\* The row with rowid `id` written into a table.
InsertRow(tbl, id, row) ==
    IF id = Len(tbl) + 1 THEN Append(tbl, row) ELSE [tbl EXCEPT ![id] = row]

\* conn.commit(): the row becomes part of the table, the lock is released.
CommitOk(j) ==
    /\ jpc[j] = "commit"
    /\ tables' = [tables EXCEPT ![TableOf(j)] = InsertRow(@, pending[j], <<j, idx[j]>>)]
    /\ dblock' = 0
    /\ pending' = [pending EXCEPT ![j] = 0]
    /\ SaveReturns(j)
    /\ UNCHANGED <<max_workers, mainVars, queue, fetches, items, dropped, files, clock>>

\* conn.commit() raises: logged, swallowed; conn.close() rolls the INSERT back.
CommitFail(j) ==
    /\ jpc[j] = "commit"
    /\ dblock' = 0
    /\ pending' = [pending EXCEPT ![j] = 0]
    /\ dropped' = dropped \cup {<<j, idx[j]>>}
    /\ SaveReturns(j)
    /\ UNCHANGED <<max_workers, mainVars, queue, fetches, items, tables, files, clock>>

\* The archive file name: prefix plus datetime.now() to the second, `now`
\* being the second the job reads.
Filename(j, now) == <<Prefix(j), now>>

\* The archive directory after job j wrote its file (open(..., 'w') creates
\* or truncates it).
WriteFile(j, now) == (Filename(j, now) :> j) @@ files

\* The seconds datetime.now() may return: the second of the latest file name
\* read so far, or the next one.  Seconds are counted from the first archive
\* write; a second in which no file is written is not counted.
Now == IF DOMAIN files = {} THEN {clock} ELSE {t \in clock..MaxClock : t <= clock + 1}

\* open + json.dump succeed; the job logs success and returns its data.
ArchiveOk(j) ==
    /\ jpc[j] = "archive"
    /\ \E now \in Now :
         /\ clock' = now
         /\ files' = WriteFile(j, now)
    /\ Succeed(j)
    /\ UNCHANGED <<max_workers, mainVars, queue, fetches, items, idx, dbVars>>

\* Mutant of TablesAfterArchiveError: the job's rows are rolled back.
TablesRolledBack(j) ==
    [n \in TableNames |-> SelectSeq(tables[n], LAMBDA r : r[1] # j)]

\* The store after the archive write of job j failed: nothing is undone.
TablesAfterArchiveError(j) == tables

\* open raises (no file is created): the except block ends the job.
ArchiveFail(j) ==
    /\ jpc[j] = "archive"
    /\ tables' = TablesAfterArchiveError(j)
    /\ Except(j, "archive")
    /\ UNCHANGED <<max_workers, mainVars, queue, fetches, items, idx, dblock, pending,
                   dropped, files, clock>>

\* ----------------------------------------------------------------- report
\* Mutant of count_table_records: the reports already written are counted
\* with the rows.
count_table_records_and_reports(n) == Len(tables[n]) + Len(report)

\* count_table_records
count_table_records(n) == Len(tables[n])

\* os.listdir(self.data_storage): the store file, the archive files and the
\* report file once one was written.
Listdir ==
    {<<"global_data.db", 0>>} \cup DOMAIN files
    \cup (IF report # <<>> THEN {<<"collection_report.json", 0>>} ELSE {})

\* generate_summary_report with the store reachable.
GenerateReport ==
    /\ mainpc = "report"
    /\ reportCalls' = reportCalls + 1
    /\ report' = Append(report,
                   [web_scraping |-> count_table_records("web_data"),
                    api_data |-> count_table_records("api_data"),
                    news_articles |-> count_table_records("news_articles"),
                    file_count |-> Cardinality(Listdir) - 1])
    /\ mainpc' = "returned"
    /\ UNCHANGED <<max_workers, error, submitted, queue, cur, jpc, outcome, fetches,
                   items, idx, dbVars, files, clock>>

\* Mutant of GenerateReportFail: the error is caught, the counts default to
\* zero and the report is written.
GenerateReportFailWritesZeros ==
    /\ mainpc = "report"
    /\ reportCalls' = reportCalls + 1
    /\ report' = Append(report,
                   [web_scraping |-> 0, api_data |-> 0, news_articles |-> 0,
                    file_count |-> Cardinality(Listdir) - 1])
    /\ mainpc' = "returned"
    /\ UNCHANGED <<max_workers, error, submitted, queue, cur, jpc, outcome, fetches,
                   items, idx, dblock, pending, tables, dropped, files, clock>>

\* count_table_records raises (store unreachable): no report file is written.
GenerateReportFail ==
    /\ mainpc = "report"
    /\ reportCalls' = reportCalls + 1
    /\ mainpc' = "raised"
    /\ error' = "sqlite3.Error"
    /\ UNCHANGED <<max_workers, submitted, queue, cur, jpc, outcome, fetches, items,
                   idx, dbVars, files, clock, report>>

\* ------------------------------------------------------------- next state
JobStep(j) ==
    \/ FetchOk(j)
    \/ FetchFail(j)
    \/ ParseOk(j)
    \/ ParseFail(j)
    \/ ConnectFail(j)
    \/ ExecuteOk(j)
    \/ ExecuteFail(j)
    \/ CommitOk(j)
    \/ CommitFail(j)
    \/ ArchiveOk(j)
    \/ ArchiveFail(j)

Next ==
    \/ Construct
    \/ Submit
    \/ WorkerTake
    \/ Shutdown
    \/ GenerateReport
    \/ GenerateReportFail
    \/ \E j \in Jobs : JobStep(j)

Spec == Init /\ [][Next]_vars

\* Fairness: while some thread can take a step, one is taken: the scheduler
\* runs runnable threads, requests.get has a timeout and SQLite's lock wait
\* ends, so no step blocks for ever.
FairSpec == Spec /\ WF_vars(Next)

\* -------------------------------------------------------------- interrupt
\* Ctrl-C during dispatch: KeyboardInterrupt is raised in the main thread.
\* Inside the with-block it first runs the executor's __exit__, which is
\* shutdown(wait=True); inside that wait it leaves collect_all_data at once.
\* Nothing tells the worker threads: they go on taking queued work items
\* (the interpreter joins them at exit).
KeyboardInterrupt ==
    /\ mainpc \in {"submit", "shutdown"}
    /\ error = ""
    /\ error' = "KeyboardInterrupt"
    /\ mainpc' = IF mainpc = "submit" THEN "unwind" ELSE "raised"
    /\ UNCHANGED <<max_workers, submitted, queue, cur, jpc, outcome, fetches, items,
                   idx, dbVars, files, clock, report, reportCalls>>

\* __exit__ has waited for the work items submitted before the interrupt;
\* the exception goes on to __main__, whose except KeyboardInterrupt logs
\* it.  No report is generated.
ExitReraises ==
    /\ mainpc = "unwind"
    /\ \A t \in 1..submitted : Finished(t)
    /\ mainpc' = "raised"
    /\ UNCHANGED <<max_workers, error, submitted, queue, cur, jpc, outcome, fetches,
                   items, idx, dbVars, files, clock, report, reportCalls>>

NextInterruptible ==
    \/ Next
    \/ KeyboardInterrupt
    \/ ExitReraises

InterruptSpec == Init /\ [][NextInterruptible]_vars

\* ---------------------------------------------------------- repeated report
\* generate_summary_report is a public method: after collect_all_data has
\* returned, the caller calls it again on the same collector.
CallGenerateReportAgain ==
    /\ mainpc = "returned"
    /\ reportCalls < MaxReportCalls
    /\ mainpc' = "report"
    /\ UNCHANGED <<max_workers, error, submitted, queue, cur, jpc, outcome, fetches,
                   items, idx, dbVars, files, clock, report, reportCalls>>

NextRepeatedReport ==
    \/ Next
    \/ CallGenerateReportAgain

RepeatedReportSpec == Init /\ [][NextRepeatedReport]_vars

\* ---------------------------------------------------------------- helpers
RECURSIVE SumOver(_, _)
SumOver(S, f) ==
    IF S = {} THEN 0
    ELSE LET x == CHOOSE y \in S : TRUE IN f[x] + SumOver(S \ {x}, f)

InFlight == {j \in Jobs : jpc[j] \notin {"idle", "done"}}

Terminal(j) == jpc[j] = "done" /\ outcome[j] # "none"

RunReturnedFromPool == mainpc \in {"report", "returned"} \/ reportCalls > 0

\* The items of job j for which save_to_database has returned.
Saved(j) ==
    IF Kind(j) # "Rss"
    THEN IF jpc[j] = "archive" \/ outcome[j] \in {"succeeded", "archive"}
         THEN {0} ELSE {}
    ELSE IF jpc[j] \in {"save", "commit"} \/ outcome[j] = "connect"
    THEN 1..(idx[j] - 1)
    ELSE IF outcome[j] = "succeeded" THEN 1..items[j]
    ELSE {}

\* The records of job j that were inserted and committed.
Committed(j) == {<<j, k>> : k \in Saved(j)} \ dropped

CommittedTo(n) == UNION {Committed(j) : j \in {i \in Jobs : TableOf(i) = n}}

\* The records a job produces when nothing fails.
Produced(j) == IF Kind(j) = "Rss" THEN items[j] ELSE 1

TotalRows == Len(tables["web_data"]) + Len(tables["api_data"]) + Len(tables["news_articles"])

NoPersistFailure ==
    /\ dropped = {}
    /\ \A j \in Jobs : outcome[j] \notin {"connect", "archive"}

\* ----------------------------------------------------------------- claims

\* C1: report generation runs only after every submitted job has reached a
\* terminal state: generate_summary_report never executes while a job is
\* queued or in flight.
C1_ReportOnlyAfterAllJobsTerminal ==
    RunReturnedFromPool => \A j \in Jobs : Terminal(j)

C1_Witness ==
    /\ mainpc = "report"
    /\ \E j \in Jobs : outcome[j] = "succeeded"
    /\ \E j \in Jobs : outcome[j] = "fetch"

\* C2: for every max_workers >= 1 the number of jobs executing at the same
\* time never exceeds max_workers.
C2_AtMostMaxWorkersExecuting ==
    max_workers >= 1 => Cardinality(InFlight) <= max_workers

C2_Witness ==
    /\ max_workers = 2
    /\ Cardinality(InFlight) = 2
    /\ queue # <<>>

\* C3: a job failing at fetch or parse changes no other job's terminal
\* state: once the pool has drained every job has a terminal state, and when
\* fetch and parse failures are the only failures every other job succeeded
\* and the store holds exactly the records of the succeeded jobs.
C3_FailureIsolation ==
    PoolDrained =>
        /\ \A j \in Jobs : Terminal(j)
        /\ NoPersistFailure =>
             /\ \A j \in Jobs : outcome[j] \notin {"fetch", "parse"} => outcome[j] = "succeeded"
             /\ TotalRows = SumOver({j \in Jobs : outcome[j] = "succeeded"},
                                    [j \in Jobs |-> Produced(j)])

C3_Witness ==
    /\ PoolDrained
    /\ NoPersistFailure
    /\ outcome[public_datasets[1]] = "fetch"
    /\ outcome[public_datasets[2]] = "succeeded"
    /\ outcome[websites_to_scrape[1]] = "parse"
    /\ outcome[public_apis[1]] = "succeeded"
    /\ TotalRows >= 3

\* C4: every source is fetched exactly once by the time the run completes,
\* whether the fetch succeeds or fails: no retry, no source skipped.
C4_ExactlyOneFetchPerSource ==
    /\ \A j \in Jobs : fetches[j] <= 1
    /\ \A j \in Jobs : jpc[j] \notin {"idle", "fetch"} => fetches[j] = 1
    /\ RunReturnedFromPool =>
         SumOver(Jobs, fetches) = Cardinality(Jobs) /\ \A j \in Jobs : fetches[j] = 1

C4_Witness ==
    /\ mainpc = "returned"
    /\ \E j \in Jobs : outcome[j] = "fetch"
    /\ \E j \in Jobs : outcome[j] = "succeeded"
    /\ SumOver(Jobs, fetches) = Cardinality(Jobs)

\* C5: with max_workers <= 0 the run is rejected with a configuration error
\* before any job runs: no fetch, no record, no archive file, no report.
C5_NonPositiveWorkersRejected ==
    max_workers <= 0 =>
        /\ mainpc \in {"start", "raised"}
        /\ mainpc = "raised" => error = "ValueError"
        /\ submitted = 0 /\ queue = <<>>
        /\ \A j \in Jobs : fetches[j] = 0 /\ jpc[j] = "idle"
        /\ TotalRows = 0
        /\ DOMAIN files = {}
        /\ report = <<>> /\ reportCalls = 0

C5_Witness == max_workers <= 0 /\ mainpc = "raised" /\ error = "ValueError"

\* C6: whatever jobs fail, a run with max_workers >= 1 eventually completes:
\* no job failure reaches the caller of collect_all_data (the only error it
\* can raise then comes from report generation itself, the store being
\* unreachable), generate_summary_report is invoked exactly once, and a run
\* that returns has written exactly one report.
C6_RunCompletesWithOneReport ==
    /\ [](max_workers >= 1 /\ error # "" => reportCalls = 1 /\ mainpc = "raised")
    /\ [](reportCalls <= 1 /\ Len(report) <= 1)
    /\ [](mainpc = "returned" => reportCalls = 1 /\ Len(report) = 1)
    /\ <>(max_workers >= 1 => reportCalls = 1 /\ mainpc \in {"returned", "raised"})

C6_Witness ==
    /\ mainpc = "returned"
    /\ Len(report) = 1
    /\ \E j \in Jobs : outcome[j] = "fetch"
    /\ \E j \in Jobs : outcome[j] = "parse"
    /\ \E j \in Jobs : outcome[j] = "archive"
    /\ dropped # {}

\* C7: append is order-independent: once the pool has drained, the row
\* count of every table is fixed by the per-job outcomes alone (which
\* appends each job made and which of them failed), whatever the order in
\* which the workers committed; when no append or archive write failed it
\* is the number of records of the jobs whose fetch and parse succeeded.
C7_CountsIndependentOfOrder ==
    PoolDrained =>
        \A n \in TableNames :
            /\ Len(tables[n]) =
                  SumOver({j \in Jobs : TableOf(j) = n},
                          [j \in Jobs |-> Cardinality(Committed(j))])
            /\ NoPersistFailure =>
                  Len(tables[n]) =
                      SumOver({j \in Jobs : TableOf(j) = n /\ outcome[j] \notin {"fetch", "parse"}},
                              [j \in Jobs |-> Produced(j)])

\* Two page jobs committed in the reverse of their submission order.
C7_Witness ==
    /\ PoolDrained
    /\ Len(tables["web_data"]) = 2
    /\ tables["web_data"][1][1] > tables["web_data"][2][1]

\* C8: concurrent appends never lose or corrupt a row: every committed
\* append has exactly one row, in its own table, holding that call's record;
\* no row is anything else; rowids are distinct.
C8_NoLostOrCorruptRow ==
    \A n \in TableNames :
        /\ Range(tables[n]) = CommittedTo(n)
        /\ Len(tables[n]) = Cardinality(CommittedTo(n))
        /\ \A r \in CommittedTo(n) :
             Cardinality({i \in DOMAIN tables[n] : tables[n][i] = r}) = 1

\* Two save_to_database calls on the same table overlap, after a first row.
C8_Witness ==
    \E j1, j2 \in Jobs :
        /\ j1 # j2
        /\ TableOf(j1) = TableOf(j2)
        /\ jpc[j1] = "commit"
        /\ jpc[j2] = "save"
        /\ pending[j1] = 2

\* C9: a PersistError on one append drops that record only: the job goes
\* on to append its remaining records.  Every item of a fetched and parsed
\* feed is, once the job is done, either in the table or was itself the
\* record whose append failed.
C9_PersistErrorDropsOnlyThatRecord ==
    \A j \in Jobs :
        (Kind(j) = "Rss" /\ jpc[j] = "done" /\ outcome[j] \notin {"fetch", "parse"}) =>
            \A k \in 1..items[j] :
                \/ <<j, k>> \in Range(tables["news_articles"])
                \/ <<j, k>> \in dropped
                \/ outcome[j] = "connect" /\ idx[j] = k

\* C10: an archive write that fails after the record was appended rolls
\* nothing back: the step leaves every table as it is and ends only that
\* job; no step ever removes or rewrites a row.
C10_ArchiveFailureKeepsRow ==
    [][/\ \A j \in Jobs :
            (jpc[j] = "archive" /\ outcome'[j] = "archive") =>
                /\ tables' = tables
                /\ \A k \in Jobs \ {j} : outcome'[k] = outcome[k]
       /\ \A n \in TableNames :
            /\ Len(tables'[n]) >= Len(tables[n])
            /\ \A i \in DOMAIN tables[n] : tables'[n][i] = tables[n][i]]_vars

C10_Witness ==
    \E j \in Jobs :
        /\ outcome[j] = "archive"
        /\ <<j, 0>> \in Range(tables[TableOf(j)])
        /\ \E k \in Jobs \ {j} : outcome[k] = "succeeded" /\ TaskOf(k) = TaskOf(j)

\* The rowids of the rows job j has in table n.
RowsOf(j, n) == {i \in DOMAIN tables[n] : tables[n][i][1] = j}

\* The page and API jobs: the ones that write an archive file.
Archiving == {j \in Jobs : Kind(j) # "Rss"}

\* C11: archive file names are unique per write: any two distinct page jobs
\* (or API jobs) that reach the archive step write different file names, so
\* the archive holds one file per successful page or API fetch: every job
\* that succeeded still has the file it wrote, and there are as many files
\* as succeeded page and API jobs.
C11_UniqueArchiveNames ==
    /\ \A j \in Archiving :
         outcome[j] = "succeeded" => \E f \in DOMAIN files : files[f] = j
    /\ Cardinality(DOMAIN files) =
         Cardinality({j \in Archiving : outcome[j] = "succeeded"})

\* C12: within one job fetch precedes parse precedes append: a job parses
\* only after its one fetch returned, enters save_to_database for the first
\* time only from a finished parse, inserts only inside save_to_database,
\* and every record, pending insert or row of a job belongs to a job that
\* was fetched and parsed; a feed's item list is fixed before its first item
\* is appended.
C12_FetchThenParseThenAppend ==
    /\ [](\A j \in Jobs :
            (\/ jpc[j] \in {"save", "commit", "archive"}
             \/ pending[j] # 0
             \/ \E n \in TableNames : RowsOf(j, n) # {}
             \/ \E k \in 0..MaxItems : <<j, k>> \in dropped)
            => fetches[j] = 1 /\ jpc[j] \notin {"idle", "fetch", "parse"})
    /\ [][\A j \in Jobs :
            /\ (jpc'[j] = "parse" /\ jpc[j] # "parse") =>
                  jpc[j] = "fetch" /\ fetches'[j] = 1
            /\ (jpc'[j] = "save" /\ jpc[j] \notin {"save", "commit"}) => jpc[j] = "parse"
            /\ (pending'[j] # 0 /\ pending[j] = 0) => jpc[j] = "save"
            /\ (\E n \in TableNames : tables'[n] # tables[n] /\ dblock = j) =>
                  jpc[j] = "commit"
            /\ jpc[j] \in {"save", "commit"} => items'[j] = items[j]]_vars

\* A feed of two items, parsed, its first item in the table, its second
\* inserted and not yet committed.
C12_Witness ==
    \E j \in Jobs :
        /\ Kind(j) = "Rss"
        /\ items[j] = 2 /\ idx[j] = 2
        /\ jpc[j] = "commit"
        /\ <<j, 1>> \in Range(tables["news_articles"])

\* C13: a feed that was fetched and parsed to zero item elements appends no
\* record and ends in the successful terminal state: it never enters
\* save_to_database, and once done its outcome is success.
C13_EmptyFeedSucceeds ==
    \A j \in Jobs :
        (Kind(j) = "Rss" /\ fetches[j] = 1 /\ items[j] = 0
            /\ jpc[j] \notin {"fetch", "parse"} /\ outcome[j] \notin {"fetch", "parse"}) =>
            /\ jpc[j] = "done" /\ outcome[j] = "succeeded"
            /\ RowsOf(j, "news_articles") = {}
            /\ pending[j] = 0
            /\ \A k \in 0..MaxItems : <<j, k>> \notin dropped

\* An empty feed succeeded while other jobs added rows.
C13_Witness ==
    \E j \in Jobs :
        /\ Kind(j) = "Rss" /\ fetches[j] = 1 /\ items[j] = 0
        /\ outcome[j] = "succeeded"
        /\ TotalRows >= 2

\* C14: when the run is interrupted during dispatch, a cancellation check is
\* consulted between jobs: from the interrupt on, no job that has not
\* started is started and none is fetched again, a job in flight is not
\* aborted, the interrupt stays the error of the run and no report is
\* required.
C14_InterruptStopsUnstartedJobs ==
    [][error = "KeyboardInterrupt" =>
          /\ \A j \in Jobs : jpc[j] = "idle" => jpc'[j] = "idle"
          /\ \A j \in Jobs : fetches'[j] <= 1
          /\ \A j \in Jobs : jpc[j] \notin {"idle", "done"} => jpc'[j] # "idle"
          /\ error' = "KeyboardInterrupt"
          /\ mainpc' # "report"]_vars

\* C15: when counting the rows of a table fails at report time,
\* generate_summary_report raises to its caller and writes no report (a
\* report is written only by a call that returns, with the tables' actual
\* counts), and the records and archive files already collected stay as
\* they are.
C15_ReportErrorWritesNothing ==
    [][(mainpc = "report" /\ mainpc' # "report") =>
          \/ /\ mainpc' = "returned" /\ error' = error
             /\ Len(report') = Len(report) + 1
             /\ LET written == report'[Len(report')] IN
                  /\ written.web_scraping = Len(tables["web_data"])
                  /\ written.api_data = Len(tables["api_data"])
                  /\ written.news_articles = Len(tables["news_articles"])
          \/ /\ mainpc' = "raised" /\ error' = "sqlite3.Error"
             /\ report' = report
             /\ tables' = tables /\ files' = files /\ dropped' = dropped]_vars

\* The store became unreachable after rows and files had been collected.
C15_Witness ==
    /\ mainpc = "raised" /\ error = "sqlite3.Error"
    /\ report = <<>>
    /\ TotalRows >= 2
    /\ DOMAIN files # {}

\* C16: report generation is idempotent on its counts: two successive
\* generate_summary_report calls with no append in between write the same
\* web_scraping, api_data and news_articles counts, and no call changes the
\* rows of a table.
C16_ReportCountsIdempotent ==
    /\ [](\A i \in DOMAIN report : \A k \in DOMAIN report :
            /\ report[i].web_scraping = report[k].web_scraping
            /\ report[i].api_data = report[k].api_data
            /\ report[i].news_articles = report[k].news_articles)
    /\ [][reportCalls' # reportCalls => tables' = tables]_vars

C16_Witness ==
    /\ Len(report) = 2
    /\ report[1].web_scraping >= 1 /\ report[2].news_articles >= 1

\* C17: the file_count of every report is the number of archive files
\* (webpage_ and api_ files) in the directory at generation time, also for a
\* call made after a report file exists.
C17_FileCountIsArchiveFiles ==
    \A i \in DOMAIN report : report[i].file_count = Cardinality(DOMAIN files)

\* C18: the kind of a job alone fixes its table and its row bound: rows of
\* web_data come from page jobs only (websites, public datasets, government
\* sources), rows of api_data from API jobs only, rows of news_articles from
\* feeds only; a page or API job has at most one row; no step deletes or
\* rewrites a row, so row counts never decrease.
C18_KindFixesTableAndRowBound ==
    /\ [](/\ \A i \in DOMAIN tables["web_data"] : Kind(tables["web_data"][i][1]) = "Page"
          /\ \A i \in DOMAIN tables["api_data"] : Kind(tables["api_data"][i][1]) = "Api"
          /\ \A i \in DOMAIN tables["news_articles"] :
               Kind(tables["news_articles"][i][1]) = "Rss"
          /\ \A j \in Archiving :
               SumOver(TableNames, [n \in TableNames |-> Cardinality(RowsOf(j, n))]) <= 1)
    /\ [][\A n \in TableNames :
            /\ Len(tables'[n]) >= Len(tables[n])
            /\ SubSeq(tables'[n], 1, Len(tables[n])) = tables[n]]_vars

\* Every table has a row; web_data has one of a website and one of a dataset.
C18_Witness ==
    /\ <<websites_to_scrape[1], 0>> \in Range(tables["web_data"])
    /\ <<public_datasets[2], 0>> \in Range(tables["web_data"])
    /\ <<public_apis[1], 0>> \in Range(tables["api_data"])
    /\ Len(tables["news_articles"]) = 2

\* The source lists of the three group tasks.
Groups == {news_sources, public_datasets, government_sources}

\* C19: each source group is one task, so its sources run one after the
\* other in list order: at most one source of a group is in flight, a
\* source has started only if every earlier source of its group has reached
\* a terminal state, and once a source has ended, failed or not, the next
\* one of its group has been started.
C19_GroupSourcesSequential ==
    \A g \in Groups :
        /\ Cardinality(Range(g) \cap InFlight) <= 1
        /\ \A k \in DOMAIN g :
             jpc[g[k]] # "idle" => \A i \in 1..(k - 1) : Terminal(g[i])
        /\ \A k \in DOMAIN g :
             (Terminal(g[k]) /\ k < Len(g)) => jpc[g[k + 1]] # "idle"

\* The first dataset source failed at fetch; the second is being fetched
\* while another task runs on the second worker.
C19_Witness ==
    /\ outcome[public_datasets[1]] = "fetch"
    /\ jpc[public_datasets[2]] = "fetch"
    /\ Cardinality(InFlight) = 2

\* C20: the outcome of a page or API job does not depend on its append: a
\* failed INSERT or commit is swallowed in save_to_database and the job goes
\* on to its archive write, ending successfully unless that write fails; a
\* job ends without success only by a failed fetch, parse, connect or
\* archive write.
C20_AppendFailureDoesNotFailJob ==
    \A j \in Archiving :
        /\ <<j, 0>> \in dropped =>
             \/ jpc[j] = "archive" /\ outcome[j] = "none"
             \/ jpc[j] = "done" /\ outcome[j] \in {"succeeded", "archive"}
        /\ (jpc[j] = "done" /\ outcome[j] # "succeeded") =>
             outcome[j] \in {"fetch", "parse", "connect", "archive"}

\* A job succeeded and has its archive file, and its table has no row of it.
C20_Witness ==
    \E j \in Archiving :
        /\ outcome[j] = "succeeded"
        /\ <<j, 0>> \in dropped
        /\ RowsOf(j, TableOf(j)) = {}
        /\ \E f \in DOMAIN files : files[f] = j

====
